---- MODULE Spec2Model ----
(***************************************************************************)
(* Model of the PDF-generation HTTP service: the Basic-credential gate     *)
(* (services/auth_middleware.py), the route handlers (app.py) and the      *)
(* template -> HTML -> PDF pipeline (services/generate_pdf_service.py).    *)
(*                                                                         *)
(* Text that the code parses (the Authorization header, template names,    *)
(* output fragments, config file names) is a sequence of one-character     *)
(* strings; decoded credentials are sequences of Unicode code points.      *)
(* URL paths and HTTP methods are only compared for equality by the code   *)
(* and are plain strings.                                                  *)
(***************************************************************************)
EXTENDS Integers, Sequences, FiniteSets, TLC

VARIABLES pc, req, resp, loc, trace, dirs, files

vars == <<pc, req, resp, loc, trace, dirs, files>>

(***************************************************************************)
(* Text helpers                                                            *)
(***************************************************************************)

\* The base64 alphabet of base64.b64decode: index - 1 is the 6-bit value.
B64Alphabet ==
    << "A","B","C","D","E","F","G","H","I","J","K","L","M",
       "N","O","P","Q","R","S","T","U","V","W","X","Y","Z",
       "a","b","c","d","e","f","g","h","i","j","k","l","m",
       "n","o","p","q","r","s","t","u","v","w","x","y","z",
       "0","1","2","3","4","5","6","7","8","9","+","/" >>

B64Chars == { B64Alphabet[i] : i \in 1..64 }

B64Val(c) == (CHOOSE i \in 1..64 : B64Alphabet[i] = c) - 1

\* str.lower() on one character (ASCII letters; the others are unchanged).
LowerChar(c) ==
    IF c \in { B64Alphabet[i] : i \in 1..26 } THEN B64Alphabet[B64Val(c) + 27] ELSE c

\* auth.lower()
Lower(s) == [ i \in 1..Len(s) |-> LowerChar(s[i]) ]

\* str.startswith
StartsWith(s, p) == Len(s) >= Len(p) /\ SubSeq(s, 1, Len(p)) = p

\* The characters str.split(None, ...) treats as separators.
Whitespace == { " ", "\t" }

\* Index of the first position >= i of s whose character is (not) whitespace,
\* Len(s) + 1 when there is none.
RECURSIVE SkipWhile(_, _, _)
SkipWhile(s, i, white) ==
    IF i > Len(s) THEN i
    ELSE IF (s[i] \in Whitespace) = white THEN SkipWhile(s, i + 1, white)
    ELSE i

\* auth.split(None, 1): leading whitespace is dropped, the first run of
\* non-whitespace is the first item, and what follows the next whitespace run
\* (if anything) is the second item, kept as it is.
SplitNone1(s) ==
    LET a == SkipWhile(s, 1, TRUE)
        b == SkipWhile(s, a, FALSE)
        c == SkipWhile(s, b, TRUE)
    IN  IF a > Len(s) THEN << >>
        ELSE IF c > Len(s) THEN << SubSeq(s, a, b - 1) >>
        ELSE << SubSeq(s, a, b - 1), SubSeq(s, c, Len(s)) >>

\* Number of "=" characters at the end of s.
RECURSIVE PadCount(_)
PadCount(s) ==
    IF Len(s) > 0 /\ s[Len(s)] = "=" THEN 1 + PadCount(SubSeq(s, 1, Len(s) - 1)) ELSE 0

\* The bytes of a run of base64 data characters (no padding).
RECURSIVE B64Bytes(_)
B64Bytes(d) ==
    IF Len(d) >= 4 THEN
        LET bits == B64Val(d[1]) * 262144 + B64Val(d[2]) * 4096
                    + B64Val(d[3]) * 64 + B64Val(d[4])
        IN  << bits \div 65536, (bits \div 256) % 256, bits % 256 >>
            \o B64Bytes(SubSeq(d, 5, Len(d)))
    ELSE IF Len(d) = 3 THEN
        LET bits == B64Val(d[1]) * 4096 + B64Val(d[2]) * 64 + B64Val(d[3])
        IN  << bits \div 1024, (bits \div 4) % 256 >>
    ELSE IF Len(d) = 2 THEN
        << (B64Val(d[1]) * 64 + B64Val(d[2])) \div 16 >>
    ELSE << >>

\* base64.b64decode(token, validate=True): only alphabet characters followed
\* by the padding that completes the last group of four; anything else raises
\* binascii.Error.
B64Decode(token) ==
    LET pads == PadCount(token)
        data == SubSeq(token, 1, Len(token) - pads)
        ok   == /\ \A i \in 1..Len(data) : data[i] \in B64Chars
                /\ pads <= 2
                /\ (Len(data) + pads) % 4 = 0
                /\ Len(data) % 4 # 1
    IN  IF ok THEN [ok |-> TRUE, val |-> B64Bytes(data)]
        ELSE [ok |-> FALSE, val |-> << >>]

\* TRUE iff bytes i+1..i+n of bs exist and are UTF-8 continuation bytes.
Continuation(bs, i, n) ==
    /\ i + n <= Len(bs)
    /\ \A k \in 1..n : bs[i + k] >= 128 /\ bs[i + k] <= 191

\* bytes.decode('utf-8'): the code points, or a UnicodeDecodeError.
RECURSIVE Utf8Decode(_)
Utf8Decode(bs) ==
    IF bs = << >> THEN [ok |-> TRUE, val |-> << >>]
    ELSE
        LET b == bs[1]
            n == IF b < 128 THEN 1
                 ELSE IF b >= 194 /\ b <= 223 THEN 2
                 ELSE IF b >= 224 /\ b <= 239 THEN 3
                 ELSE IF b >= 240 /\ b <= 244 THEN 4
                 ELSE 0
        IN  IF n = 0 \/ ~Continuation(bs, 1, n - 1) THEN [ok |-> FALSE, val |-> << >>]
            ELSE
                LET cp == IF n = 1 THEN b
                          ELSE IF n = 2 THEN (b - 192) * 64 + (bs[2] - 128)
                          ELSE IF n = 3 THEN (b - 224) * 4096 + (bs[2] - 128) * 64
                                             + (bs[3] - 128)
                          ELSE (b - 240) * 262144 + (bs[2] - 128) * 4096
                               + (bs[3] - 128) * 64 + (bs[4] - 128)
                    wellFormed == /\ n = 3 => cp >= 2048 /\ ~(cp >= 55296 /\ cp <= 57343)
                                  /\ n = 4 => cp >= 65536 /\ cp <= 1114111
                    rest == Utf8Decode(SubSeq(bs, n + 1, Len(bs)))
                IN  IF wellFormed /\ rest.ok
                    THEN [ok |-> TRUE, val |-> << cp >> \o rest.val]
                    ELSE [ok |-> FALSE, val |-> << >>]

\* Position of the first occurrence of x in s, 0 when there is none.
RECURSIVE IndexOf(_, _, _)
IndexOf(s, x, i) ==
    IF i > Len(s) THEN 0 ELSE IF s[i] = x THEN i ELSE IndexOf(s, x, i + 1)

\* decoded.split(':', 1): one item when there is no colon, else two.
SplitColon1(s) ==
    LET k == IndexOf(s, 58, 1)
    IN  IF k = 0 THEN << s >>
        ELSE << SubSeq(s, 1, k - 1), SubSeq(s, k + 1, Len(s)) >>

IsAscii(s) == \A i \in 1..Len(s) : s[i] < 128

\* hmac.compare_digest on two str values: a TypeError when either holds a
\* non-ASCII character, else whether they are equal.
compare_digest(a, b) ==
    IF IsAscii(a) /\ IsAscii(b) THEN (IF a = b THEN "equal" ELSE "differ") ELSE "TypeError"

(***************************************************************************)
(* Configuration and the Basic-credential gate (auth_middleware.py)        *)
(***************************************************************************)

\* config['BASIC_USER'] and config['BASIC_PASSWORD'], as code points
\* ("u" and "pw"); register_basic_auth refuses empty values.
user == << 117 >>

pwd == << 112, 119 >>

\* register_basic_auth(app, config, exempt_paths=['/health', '/favicon.ico'])
exempt_paths == { "/health", "/favicon.ico" }

\* 'basic ', the prefix auth.lower() is tested against.
BasicPrefix == << "b", "a", "s", "i", "c", " " >>

\* request.headers.get('Authorization'): absent, or the header's text.
NoHeader == [present |-> FALSE, val |-> << >>]

Header(s) == [present |-> TRUE, val |-> s]

\* A response: status, what kind of body it carries, whether it has the
\* WWW-Authenticate challenge header, and the body's parts (an error message
\* as a sequence of text fragments, a saved path, a payload, the suggested
\* download name).
Response(status, kind, challenge, error, path, data, name) ==
    [status |-> status, kind |-> kind, challenge |-> challenge,
     error |-> error, path |-> path, data |-> data, download_name |-> name]

NoResponse == Response(0, "none", FALSE, << >>, << >>, << >>, << >>)

\* Response('Unauthorized', 401, {'WWW-Authenticate': 'Basic realm=...'})
_unauthorized_response ==
    Response(401, "text", TRUE, << "Unauthorized" >>, << >>, << >>, << >>)

\* jsonify({"error": msg}), status
JsonError(status, msg) == Response(status, "json_error", FALSE, msg, << >>, << >>, << >>)

\* The before_request hook. "None" lets the request through, "401" answers
\* with the challenge, "TypeError" is the exception compare_digest raises
\* outside the try block.
_check_basic_auth(method, path, auth) ==
    IF method = "OPTIONS" THEN "None"
    ELSE IF path \in exempt_paths THEN "None"
    ELSE IF ~auth.present \/ auth.val = << >>
            \/ ~StartsWith(Lower(auth.val), BasicPrefix) THEN "401"
    ELSE
        LET parts == SplitNone1(auth.val)
        IN  IF Len(parts) < 2 THEN "401"                  \* IndexError
            ELSE
            LET raw == B64Decode(parts[2])
            IN  IF ~raw.ok THEN "401"                     \* binascii.Error
                ELSE
                LET decoded == Utf8Decode(raw.val)
                IN  IF ~decoded.ok THEN "401"             \* UnicodeDecodeError
                    ELSE
                    LET up == SplitColon1(decoded.val)
                    IN  IF Len(up) < 2 THEN "401"         \* ValueError (unpack)
                        ELSE
                        LET cu == compare_digest(up[1], user)
                        IN  IF cu = "TypeError" THEN "TypeError"
                            ELSE IF cu = "differ" THEN "401"
                            ELSE
                            LET cp == compare_digest(up[2], pwd)
                            IN  IF cp = "TypeError" THEN "TypeError"
                                ELSE IF cp = "differ" THEN "401"
                                ELSE "None"

\* @app.errorhandler(500): what Flask answers when a hook or a view raises.
internal_error == JsonError(500, << "Error interno del servidor" >>)

\* @app.errorhandler(404)
not_found == JsonError(404, << "Endpoint no encontrado" >>)

(***************************************************************************)
(* Paths, JSON values, templates                                           *)
(***************************************************************************)

\* The components pathlib keeps of a path: the text between "/" separators,
\* without the empty ones and without ".".
RECURSIVE Components(_)
Components(s) ==
    IF s = << >> THEN << >>
    ELSE
        LET k    == IndexOf(s, "/", 1)
            head == IF k = 0 THEN s ELSE SubSeq(s, 1, k - 1)
            tail == IF k = 0 THEN << >> ELSE SubSeq(s, k + 1, Len(s))
        IN  (IF head = << >> \/ head = << "." >> THEN << >> ELSE << head >>)
            \o Components(tail)

\* Path(s).name: the final component, '' when there is none.
PathName(s) ==
    LET c == Components(s) IN IF c = << >> THEN << >> ELSE c[Len(c)]

\* Position of the last occurrence of x in s, 0 when there is none.
RECURSIVE LastIndexOf(_, _, _)
LastIndexOf(s, x, i) ==
    IF i < 1 THEN 0 ELSE IF s[i] = x THEN i ELSE LastIndexOf(s, x, i - 1)

\* Path(s).stem: the name without its last suffix.
PathStem(s) ==
    LET n == PathName(s)
        i == LastIndexOf(n, ".", Len(n))
    IN  IF i > 1 /\ i < Len(n) THEN SubSeq(n, 1, i - 1) ELSE n

\* Path(s).parent of an absolute path, as components.
PathParent(s) ==
    LET c == Components(s) IN IF c = << >> THEN << >> ELSE SubSeq(c, 1, Len(c) - 1)

\* A JSON value as the handlers see it: its kind and, for a string, its
\* characters; for the context object, the characters of its "razon" entry.
JV(kind, val) == [kind |-> kind, val |-> val]

JAbsent == JV("absent", << >>)

JNull == JV("null", << >>)

JStr(s) == JV("str", s)

JDict(v) == JV("dict", v)

JList == JV("list", << "x" >>)

\* data.get(key): None for a missing key.
DictGet(data, key) == IF data[key].kind = "absent" THEN JNull ELSE data[key]

\* data.get(key, default)
DictGetDefault(data, key, default) ==
    IF data[key].kind = "absent" THEN default ELSE data[key]

\* Python truth of a value: None and '' are false; the lists and objects of
\* this model are non-empty except the default context {}.
Truthy(v) == v.kind # "null" /\ (v.kind = "str" => v.val # << >>)

\* An exception: its class and str(e) as text fragments.
Exc(type, msg) == [type |-> type, msg |-> msg]

\* The literal a template uses for the context entry.
Placeholder == "{{ razon }}"

\* An unclosed block tag, which jinja2 refuses to parse.
BadTag == "{%"

\* The files of the templates directory: name -> content, a sequence of
\* literal characters and tags.
TemplateFiles ==
    ( << "t", ".", "j", "2" >> :> << "<", Placeholder, ">" >> )
    @@ ( << "b", ".", "j", "2" >> :> << "<", BadTag, ">" >> )

\* '.j2', appended by "{}.j2".format(template)
J2Suffix == << ".", "j", "2" >>

\* "/app/output/", the prefix of every output path
OutputRoot == << "/", "a", "p", "p", "/", "o", "u", "t", "p", "u", "t", "/" >>

\* Template(content).render(**context): every placeholder becomes the
\* context's value (empty when the key is missing); a malformed tag raises
\* TemplateSyntaxError.
RECURSIVE Substitute(_, _)
Substitute(content, value) ==
    IF content = << >> THEN << >>
    ELSE (IF Head(content) = Placeholder THEN value ELSE << Head(content) >>)
         \o Substitute(Tail(content), value)

Render(content, context) ==
    IF \E i \in 1..Len(content) : content[i] = BadTag
    THEN [ok |-> FALSE, val |-> << >>]
    ELSE [ok |-> TRUE, val |-> Substitute(content, context.val)]

\* HTML(string=html, base_url=...).write_pdf(): the document's bytes, which
\* begin with the PDF signature, carry the markup's content and end with the
\* end-of-file marker.
WritePdf(html) == << "%PDF" >> \o html \o << "%%EOF" >>

(***************************************************************************)
(* Requests, routes and the file system                                    *)
(***************************************************************************)

\* The worker threads that serve requests.
Workers == { 1, 2 }

\* The body of a request as request.get_json() returns it.
JsonObject(template, context, output) ==
    [kind |-> "object", template |-> template, context |-> context, output |-> output]

\* A body that is JSON but no object, a body that does not parse, and the
\* body of a request whose body has not been read.
JsonArray == [JsonObject(JAbsent, JAbsent, JAbsent) EXCEPT !.kind = "array"]

Malformed == [JsonObject(JAbsent, JAbsent, JAbsent) EXCEPT !.kind = "malformed"]

Unread == [JsonObject(JAbsent, JAbsent, JAbsent) EXCEPT !.kind = "unread"]

\* `not data`: an empty object is false, a non-empty array is true.
DataTruthy(data) ==
    \/ data.kind = "array"
    \/ data.kind = "object"
       /\ \E k \in { "template", "context", "output" } : data[k].kind # "absent"

NoRequest ==
    [method |-> "", path |-> "", auth |-> NoHeader,
     is_json |-> FALSE, data |-> Unread, config |-> JAbsent]

\* The local variables of the handler and of generate_pdf, and the fault the
\* environment raised in one of its I/O steps ("none": no fault).
NoLocals ==
    [template |-> << >>, template_name |-> << >>, context |-> JDict(<< >>),
     output_path |-> << >>, template_content |-> << >>, rendered_html |-> << >>,
     pdf_bytes |-> << >>, result |-> "none", fault |-> "none"]

\* The URL map: the view a path is routed to and the methods it accepts
\* (Flask adds OPTIONS to every rule); "none" when no rule matches.
Rule(endpoint, methods, dir, filename) ==
    [endpoint |-> endpoint, methods |-> methods, dir |-> dir, filename |-> filename]

UrlMap(path) ==
    CASE path = "/api/generate-pdf"    -> Rule("generate_pdf_endpoint", { "POST", "OPTIONS" }, "", "")
      [] path = "/api/render-template" -> Rule("render_template_endpoint", { "GET", "OPTIONS" }, "", "")
      [] path = "/api/health"          -> Rule("health_check", { "GET", "OPTIONS" }, "", "")
      [] path = "/api/styles/s.css"    -> Rule("serve_styles", { "GET", "OPTIONS" }, "styles", "s.css")
      [] path = "/api/img/x.png"       -> Rule("serve_images", { "GET", "OPTIONS" }, "img", "x.png")
      [] path = "/api/fonts/f.ttf"     -> Rule("serve_fonts", { "GET", "OPTIONS" }, "fonts", "f.ttf")
      [] OTHER                         -> Rule("none", { }, "", "")

\* The files under templates/styles, templates/img and templates/fonts.
StaticFiles == { << "styles", "s.css" >>, << "fonts", "f.ttf" >> }

\* 'render_config.json', the default of request.args.get('config', ...)
DefaultConfig ==
    << "r", "e", "n", "d", "e", "r", "_", "c", "o", "n", "f", "i", "g",
       ".", "j", "s", "o", "n" >>

\* The JSON files beside app.py: name -> content.
ConfigFiles ==
    ( DefaultConfig :> JsonObject(JStr(<< "t" >>), JDict(<< "A" >>), JStr(<< "a" >>)) )
    @@ ( << "c", ".", "j" >> :> JsonObject(JAbsent, JDict(<< "A" >>), JAbsent) )
    @@ ( << "x", ".", "j" >> :> JsonObject(JStr(<< "t" >>), JList, JAbsent) )
    @@ ( << "m", ".", "j" >> :> JsonObject(JStr(<< "m" >>), JAbsent, JAbsent) )

\* A write through a descriptor opened for appending.
OverwriteAppending(old, new) == old \o new

\* What f.write(pdf_bytes) leaves in a file opened at offset 0: the new bytes
\* over the old ones, and whatever the old content had beyond them.
Overwrite(old, new) == new \o SubSeq(old, Len(new) + 1, Len(old))

\* All the ancestors of a directory and the directory itself.
Ancestors(d) == { SubSeq(d, 1, k) : k \in 0..Len(d) }

\* str(e) of an OSError
OsMessage(type) == << "[Errno] ", type >>

(***************************************************************************)
(* Pure parts of the handlers                                              *)
(***************************************************************************)

\* generate_pdf's except clauses: FileNotFoundError passes through, every
\* other exception becomes RuntimeError("Error al generar PDF: ...").
generate_pdf_raise(e) ==
    IF e.type = "FileNotFoundError" THEN e
    ELSE Exc("RuntimeError", << "Error al generar PDF: " >> \o e.msg)

\* The except clauses of generate_pdf_endpoint (and, alike, of
\* render_template_endpoint).
endpoint_except(e) ==
    IF e.type = "FileNotFoundError" THEN JsonError(404, e.msg)
    ELSE IF e.type = "RuntimeError" THEN JsonError(500, e.msg)
    ELSE JsonError(500, << "Error inesperado: " >> \o e.msg)

\* "/app/output/" + data.get('output'): a TypeError unless the value is a str.
output_path_of(data) ==
    LET o == DictGet(data, "output")
    IN  IF o.kind = "str" THEN [ok |-> TRUE, val |-> OutputRoot \o o.val]
        ELSE [ok |-> FALSE, val |-> << >>]

\* generate_pdf_endpoint up to the call of the service: either a response
\* (call = FALSE) or the arguments of pdf_service.generate_pdf.
Answered(response) ==
    [call |-> FALSE, resp |-> response, template |-> << >>,
     context |-> JDict(<< >>), output_path |-> << >>]

generate_pdf_request(is_json, data) ==
    IF ~is_json THEN
        Answered(JsonError(415, << "Content-Type debe ser application/json" >>))
    ELSE IF data.kind = "malformed" THEN
        Answered(endpoint_except(Exc("BadRequest", << "400 Bad Request" >>)))
    ELSE IF ~DataTruthy(data) THEN
        Answered(JsonError(400, << "JSON requerido" >>))
    ELSE IF data.kind # "object" THEN
        Answered(endpoint_except(Exc("AttributeError", << "no attribute 'get'" >>)))
    ELSE
        LET template == DictGet(data, "template")
            context  == DictGetDefault(data, "context", JDict(<< >>))
            out      == output_path_of(data)
        IN  IF ~out.ok THEN
                Answered(endpoint_except(Exc("TypeError", << "can only concatenate str" >>)))
            ELSE IF ~Truthy(template) THEN
                Answered(JsonError(400, << "Campo 'template' requerido" >>))
            ELSE IF context.kind # "dict" THEN
                Answered(JsonError(400, << "Campo 'context' debe ser un objeto JSON" >>))
            ELSE
                [call |-> TRUE, resp |-> NoResponse, template |-> template.val,
                 context |-> context, output_path |-> out.val]

\* The end of generate_pdf_endpoint: the envelope when output_path is set,
\* else the document as an attachment.
generate_pdf_response(l) ==
    IF l.output_path # << >> THEN
        Response(200, "json_success", FALSE, << >>, l.output_path, << >>, << >>)
    ELSE
        Response(200, "pdf_attachment", FALSE, << >>, << >>, l.pdf_bytes,
                 PathStem(l.template) \o << ".", "p", "d", "f" >>)

\* render_template_endpoint as a whole. Its last step calls
\* pdf_service.render_template, a method class GeneratePdfService (which
\* defines __init__ and generate_pdf only) does not have: the attribute lookup
\* raises AttributeError, which the handler's last except clause answers.
render_template_response(config) ==
    LET config_name == IF config.kind = "absent" THEN DefaultConfig ELSE config.val
    IN  IF config_name = << >> THEN
            JsonError(400, << "Nombre de archivo JSON requerido" >>)
        ELSE IF PathName(config_name) # config_name THEN
            JsonError(400, << "Nombre de archivo JSON invalido" >>)
        ELSE IF config_name \notin DOMAIN ConfigFiles THEN
            JsonError(404, << "Archivo JSON no encontrado" >>)
        ELSE
            LET data     == ConfigFiles[config_name]
                template == DictGet(data, "template")
                context  == DictGetDefault(data, "context", JDict(<< >>))
            IN  IF ~Truthy(template) THEN
                    JsonError(400, << "Campo 'template' requerido en el archivo JSON" >>)
                ELSE IF context.kind # "dict" THEN
                    JsonError(400, << "Campo 'context' debe ser un objeto JSON" >>)
                ELSE
                    endpoint_except(Exc("AttributeError",
                        << "'GeneratePdfService' object has no attribute 'render_template'" >>))

\* health_check
health_response ==
    Response(200, "json_health", FALSE, << "healthy", "pdf-generator" >>, << >>, << >>, << >>)

\* send_from_directory(dir, filename): the file, or NotFound, which the 404
\* handler answers.
static_response(rule) ==
    IF << rule.dir, rule.filename >> \in StaticFiles
    THEN Response(200, "file", FALSE, << >>, << >>, << rule.filename >>, << >>)
    ELSE not_found

\* Flask's own answers in dispatch_request: no rule, method not allowed, and
\* the automatic OPTIONS response.
routing_response(method, rule) ==
    IF rule.endpoint = "none" THEN not_found
    ELSE IF method \notin rule.methods THEN
        Response(405, "text", FALSE, << "Method Not Allowed" >>, << >>, << >>, << >>)
    ELSE Response(200, "options", FALSE, << >>, << >>, << >>, << >>)

(***************************************************************************)
(* State and actions                                                       *)
(***************************************************************************)

Init ==
    /\ pc = [r \in Workers |-> "idle"]
    /\ req = [r \in Workers |-> NoRequest]
    /\ resp = [r \in Workers |-> NoResponse]
    /\ loc = [r \in Workers |-> NoLocals]
    /\ trace = [r \in Workers |-> << >>]
    /\ dirs = { << >>, << << "a", "p", "p" >> >> }
    /\ files = [f \in { } |-> << >>]

\* The step `label` of worker r ends the request with `response`.
Answer(r, label, response) ==
    /\ pc' = [pc EXCEPT ![r] = "done"]
    /\ resp' = [resp EXCEPT ![r] = response]
    /\ trace' = [trace EXCEPT ![r] = Append(@, [step |-> label, ok |-> response.status < 400])]

\* The step `label` of worker r completes and `next` follows.
Goto(r, label, next) ==
    /\ pc' = [pc EXCEPT ![r] = next]
    /\ trace' = [trace EXCEPT ![r] = Append(@, [step |-> label, ok |-> TRUE])]
    /\ UNCHANGED resp

\* A generate_pdf that prepares the output directory before it converts the
\* markup.
next_step_mkdir_first(label, l) ==
    CASE label = "validate" -> "exists"
      [] label = "exists"   -> "read"
      [] label = "read"     -> "render"
      [] label = "render"   -> IF l.output_path # << >> THEN "mkdir" ELSE "convert"
      [] label = "mkdir"    -> "convert"
      [] label = "convert"  -> IF l.output_path # << >> THEN "open" ELSE "respond"
      [] label = "open"     -> "write"
      [] label = "write"    -> "respond"

\* The step that follows step `label` of generate_pdf when it succeeds; the
\* statements are in this order in the method, and `if output_path:` decides
\* after the conversion.
next_step(label, l) ==
    CASE label = "validate" -> "exists"
      [] label = "exists"   -> "read"
      [] label = "read"     -> "render"
      [] label = "render"   -> "convert"
      [] label = "convert"  -> IF l.output_path # << >> THEN "mkdir" ELSE "respond"
      [] label = "mkdir"    -> "open"
      [] label = "open"     -> "write"
      [] label = "write"    -> "respond"

\* generate_pdf raises e at step `label`: the service's except clauses, then
\* the endpoint's, and the request is over.
Raise(r, label, e) == Answer(r, label, endpoint_except(generate_pdf_raise(e)))

\* A worker takes a request: its method, path and Authorization header.
Receive(r, methods, paths, auths) ==
    /\ pc[r] \in { "idle", "done" }
    /\ \E m \in methods, p \in paths, a \in auths :
          req' = [req EXCEPT ![r] = [NoRequest EXCEPT !.method = m, !.path = p, !.auth = a]]
    /\ pc' = [pc EXCEPT ![r] = "before_request"]
    /\ resp' = [resp EXCEPT ![r] = NoResponse]
    /\ loc' = [loc EXCEPT ![r] = NoLocals]
    /\ trace' = [trace EXCEPT ![r] = << >>]
    /\ UNCHANGED << dirs, files >>

\* app.before_request(_check_basic_auth)
before_request(r) ==
    /\ pc[r] = "before_request"
    /\ LET rv == _check_basic_auth(req[r].method, req[r].path, req[r].auth)
       IN  IF rv = "None" THEN Goto(r, "before_request", "dispatch")
           ELSE IF rv = "401" THEN Answer(r, "before_request", _unauthorized_response)
           ELSE Answer(r, "before_request", internal_error)
    /\ UNCHANGED << req, loc, dirs, files >>

\* dispatch_request when no view is called.
dispatch_request(r) ==
    /\ pc[r] = "dispatch"
    /\ LET rule == UrlMap(req[r].path)
       IN  /\ rule.endpoint = "none" \/ req[r].method \notin rule.methods
              \/ req[r].method = "OPTIONS"
           /\ Answer(r, "dispatch_request", routing_response(req[r].method, rule))
    /\ UNCHANGED << req, loc, dirs, files >>

\* TRUE iff worker r's request is routed to view `endpoint`.
Routed(r, endpoints) ==
    /\ pc[r] = "dispatch"
    /\ UrlMap(req[r].path).endpoint \in endpoints
    /\ req[r].method \in UrlMap(req[r].path).methods \ { "OPTIONS" }

health_check(r) ==
    /\ Routed(r, { "health_check" })
    /\ Answer(r, "health_check", health_response)
    /\ UNCHANGED << req, loc, dirs, files >>

\* serve_styles, serve_images, serve_fonts
serve_static(r) ==
    /\ Routed(r, { "serve_styles", "serve_images", "serve_fonts" })
    /\ Answer(r, "serve_static", static_response(UrlMap(req[r].path)))
    /\ UNCHANGED << req, loc, dirs, files >>

render_template_endpoint(r, configs) ==
    /\ Routed(r, { "render_template_endpoint" })
    /\ \E c \in configs :
          /\ req' = [req EXCEPT ![r].config = c]
          /\ Answer(r, "render_template_endpoint", render_template_response(c))
    /\ UNCHANGED << loc, dirs, files >>

\* generate_pdf_endpoint from its start to the call of the service.
generate_pdf_endpoint(r, bodies) ==
    /\ Routed(r, { "generate_pdf_endpoint" })
    /\ \E b \in bodies :
          LET got == generate_pdf_request(b.is_json, b.data)
          IN  /\ req' = [req EXCEPT ![r].is_json = b.is_json, ![r].data = b.data]
              /\ IF got.call
                 THEN /\ Goto(r, "generate_pdf_endpoint", "validate")
                      /\ loc' = [loc EXCEPT ![r] =
                                   [NoLocals EXCEPT !.template = got.template,
                                                    !.template_name = got.template \o J2Suffix,
                                                    !.context = got.context,
                                                    !.output_path = got.output_path]]
                 ELSE /\ Answer(r, "generate_pdf_endpoint", got.resp)
                      /\ UNCHANGED loc
    /\ UNCHANGED << dirs, files >>

(***************************************************************************)
(* GeneratePdfService.generate_pdf, one action per statement that reads or *)
(* writes the file system or calls a library                               *)
(***************************************************************************)

\* safe_name = Path(template_name).name; if safe_name != template_name: raise
validate(r) ==
    /\ pc[r] = "validate"
    /\ IF PathName(loc[r].template_name) # loc[r].template_name
       THEN Raise(r, "validate", Exc("ValueError", << "Nombre de template invalido" >>))
       ELSE Goto(r, "validate", next_step("validate", loc[r]))
    /\ UNCHANGED << req, loc, dirs, files >>

\* if not template_path.exists(): raise FileNotFoundError
exists(r) ==
    /\ pc[r] = "exists"
    /\ IF loc[r].template_name \notin DOMAIN TemplateFiles
       THEN Raise(r, "exists", Exc("FileNotFoundError", << "Template no encontrado" >>))
       ELSE Goto(r, "exists", next_step("exists", loc[r]))
    /\ UNCHANGED << req, loc, dirs, files >>

\* with open(template_path, 'r', encoding='utf-8') as f: f.read()
read(r, faults) ==
    /\ pc[r] = "read"
    /\ \E x \in faults :
          IF x # "none"
          THEN /\ Raise(r, "read", Exc(x, OsMessage(x)))
               /\ loc' = [loc EXCEPT ![r].fault = x]
          ELSE /\ Goto(r, "read", next_step("read", loc[r]))
               /\ loc' = [loc EXCEPT ![r].template_content =
                                         TemplateFiles[loc[r].template_name]]
    /\ UNCHANGED << req, dirs, files >>

\* rendered_html = Template(template_content).render(**context)
render(r) ==
    /\ pc[r] = "render"
    /\ LET html == Render(loc[r].template_content, loc[r].context)
       IN  IF ~html.ok
           THEN Raise(r, "render", Exc("TemplateSyntaxError", << "unexpected end of template" >>))
                /\ UNCHANGED loc
           ELSE /\ Goto(r, "render", next_step("render", loc[r]))
                /\ loc' = [loc EXCEPT ![r].rendered_html = html.val]
    /\ UNCHANGED << req, dirs, files >>

\* pdf_bytes = HTML(string=rendered_html, base_url=...).write_pdf()
\* followed by `if output_path:` ... `else: return pdf_bytes`
convert(r, faults) ==
    /\ pc[r] = "convert"
    /\ \E x \in faults :
          IF x # "none"
          THEN /\ Raise(r, "convert", Exc(x, OsMessage(x)))
               /\ loc' = [loc EXCEPT ![r].fault = x]
          ELSE /\ Goto(r, "convert", next_step("convert", loc[r]))
               /\ loc' = [loc EXCEPT ![r].pdf_bytes = WritePdf(loc[r].rendered_html),
                                     ![r].result = IF loc[r].output_path # << >>
                                                   THEN "none" ELSE "bytes"]
    /\ UNCHANGED << req, dirs, files >>

\* output_dir = Path(output_path).parent
\* output_dir.mkdir(parents=True, exist_ok=True)
mkdir(r, faults) ==
    /\ pc[r] = "mkdir"
    /\ \E x \in faults :
          LET output_dir == PathParent(loc[r].output_path)
          IN  IF x # "none"
              THEN /\ Raise(r, "mkdir", Exc(x, OsMessage(x)))
                   /\ loc' = [loc EXCEPT ![r].fault = x]
                   /\ UNCHANGED dirs
              ELSE IF \E d \in Ancestors(output_dir) : d \in DOMAIN files
              THEN Raise(r, "mkdir", Exc("FileExistsError", OsMessage("FileExistsError")))
                   /\ UNCHANGED << dirs, loc >>
              ELSE /\ Goto(r, "mkdir", next_step("mkdir", loc[r]))
                   /\ UNCHANGED loc
                   /\ dirs' = dirs \cup Ancestors(output_dir)
    /\ UNCHANGED << req, files >>

\* open(output_path, 'wb'): creates the file or truncates it
open(r, faults) ==
    /\ pc[r] = "open"
    /\ \E x \in faults :
          LET path == loc[r].output_path
              target == Components(path)
          IN  IF x # "none"
              THEN /\ Raise(r, "open", Exc(x, OsMessage(x)))
                   /\ loc' = [loc EXCEPT ![r].fault = x]
                   /\ UNCHANGED files
              ELSE IF path[Len(path)] = "/" \/ target \in dirs
              THEN Raise(r, "open", Exc("IsADirectoryError", OsMessage("IsADirectoryError")))
                   /\ UNCHANGED << files, loc >>
              ELSE IF PathParent(path) \notin dirs
              THEN Raise(r, "open", Exc("FileNotFoundError", OsMessage("FileNotFoundError")))
                   /\ UNCHANGED << files, loc >>
              ELSE /\ Goto(r, "open", next_step("open", loc[r]))
                   /\ UNCHANGED loc
                   /\ files' = (target :> << >>) @@ files
    /\ UNCHANGED << req, dirs >>

\* f.write(pdf_bytes) and the end of the with block; return output_path
write(r, faults) ==
    /\ pc[r] = "write"
    /\ \E x \in faults :
          LET target == Components(loc[r].output_path)
          IN  IF x # "none"
              THEN /\ Raise(r, "write", Exc(x, OsMessage(x)))
                   /\ loc' = [loc EXCEPT ![r].fault = x]
                   /\ UNCHANGED files
              ELSE /\ Goto(r, "write", next_step("write", loc[r]))
                   /\ files' = (target :> Overwrite(files[target], loc[r].pdf_bytes)) @@ files
                   /\ loc' = [loc EXCEPT ![r].result = "path"]
    /\ UNCHANGED << req, dirs >>

\* generate_pdf_endpoint after the service returned
respond(r) ==
    /\ pc[r] = "respond"
    /\ Answer(r, "respond", generate_pdf_response(loc[r]))
    /\ UNCHANGED << req, loc, dirs, files >>

(***************************************************************************)
(* Inputs                                                                  *)
(***************************************************************************)

Methods == { "GET", "POST", "OPTIONS" }

Paths ==
    { "/api/generate-pdf", "/api/render-template", "/api/health",
      "/api/styles/s.css", "/api/img/x.png", "/api/fonts/f.ttf",
      "/health", "/favicon.ico", "/nope" }

\* "Basic" and "basic", the scheme as clients write it
SchemeBasic == << "B", "a", "s", "i", "c" >>

SchemeLower == << "b", "a", "s", "i", "c" >>

\* base64 of "u:pw", the configured credentials
GoodToken == << "d", "T", "p", "w", "d", "w", "=", "=" >>

GoodHeader == Header(SchemeBasic \o << " " >> \o GoodToken)

\* Authorization headers: absent; another scheme; the configured credentials
\* (also with a lower-case scheme and with two spaces); a wrong password
\* ("u:px"); a wrong user ("v:pw"); no colon ("upw"); bytes that are not
\* UTF-8 (0xFF ":pw"); wrong padding; no token; a non-ASCII user ("é:pw"),
\* a non-ASCII password with the right user ("u:é") and with a wrong user
\* ("v:é"); a trailing space.
AuthHeaders ==
    { NoHeader,
      Header(<< "T", "o", "k", "e", "n", " " >> \o GoodToken),
      GoodHeader,
      Header(SchemeLower \o << " " >> \o GoodToken),
      Header(SchemeBasic \o << " ", " " >> \o GoodToken),
      Header(SchemeBasic \o << " " >> \o << "d", "T", "p", "w", "e", "A", "=", "=" >>),
      Header(SchemeBasic \o << " " >> \o << "d", "j", "p", "w", "d", "w", "=", "=" >>),
      Header(SchemeBasic \o << " " >> \o << "d", "X", "B", "3" >>),
      Header(SchemeBasic \o << " " >> \o << "/", "z", "p", "w", "d", "w", "=", "=" >>),
      Header(SchemeBasic \o << " " >> \o << "d", "T", "p", "w", "d", "w", "=" >>),
      Header(SchemeBasic \o << " " >>),
      Header(SchemeBasic \o << " " >> \o << "w", "6", "k", "6", "c", "H", "c", "=" >>),
      Header(SchemeBasic \o << " " >> \o << "d", "T", "r", "D", "q", "Q", "=", "=" >>),
      Header(SchemeBasic \o << " " >> \o << "d", "j", "r", "D", "q", "Q", "=", "=" >>),
      Header(SchemeBasic \o << " " >> \o GoodToken \o << " " >>) }

\* The `template` field: missing, empty, an existing template, a template
\* that does not exist, one whose file does not parse, one with a directory.
Templates ==
    { JAbsent, JStr(<< >>), JStr(<< "t" >>), JStr(<< "m" >>), JStr(<< "b" >>),
      JStr(<< "d", "/", "t" >>) }

\* The longest value of the context's entry.
MaxValueLen == 2

\* The values of the context's entry: "A", and "B", "BB", ... up to the bound.
ContextValues == { << "A" >> } \cup { [i \in 1..n |-> "B"] : n \in 1..MaxValueLen }

\* The `context` field: missing, an object with each value, a list.
Contexts == { JAbsent, JList } \cup { JDict(v) : v \in ContextValues }

\* The `output` field: missing, empty, a file name, a file in a directory
\* of that name.
Outputs == { JAbsent, JStr(<< >>), JStr(<< "a" >>), JStr(<< "a", "/", "b" >>) }

\* request.is_json and request.get_json()
Body(is_json, data) == [is_json |-> is_json, data |-> data]

Bodies ==
    { Body(FALSE, Unread), Body(TRUE, Malformed), Body(TRUE, JsonArray) }
    \cup { Body(TRUE, JsonObject(t, c, o)) : t \in Templates, c \in Contexts, o \in Outputs }

\* The `config` query argument: missing, empty, three existing files, a
\* missing file, a name with a directory.
Configs ==
    { JAbsent, JStr(<< >>), JStr(<< "c", ".", "j" >>), JStr(<< "x", ".", "j" >>),
      JStr(<< "m", ".", "j" >>), JStr(<< "n", ".", "j" >>),
      JStr(<< "d", "/", "c", ".", "j" >>) }

\* What the environment can make each I/O step raise ("none": it succeeds).
ReadFaults == { "none", "UnicodeDecodeError" }

ConvertFaults == { "none", "Exception" }

MkdirFaults == { "none", "PermissionError" }

OpenFaults == { "none", "PermissionError", "FileNotFoundError" }

WriteFaults == { "none", "OSError" }

\* The steps of generate_pdf, shared by both specifications.
generate_pdf(r) ==
    \/ validate(r)
    \/ exists(r)
    \/ read(r, ReadFaults)
    \/ render(r)
    \/ convert(r, ConvertFaults)
    \/ mkdir(r, MkdirFaults)
    \/ open(r, OpenFaults)
    \/ write(r, WriteFaults)
    \/ respond(r)

(***************************************************************************)
(* Spec: one worker serves any sequence of requests.                       *)
(***************************************************************************)

Next ==
    \E r \in { 1 } :
        \/ Receive(r, Methods, Paths, AuthHeaders)
        \/ before_request(r)
        \/ dispatch_request(r)
        \/ health_check(r)
        \/ serve_static(r)
        \/ render_template_endpoint(r, Configs)
        \/ generate_pdf_endpoint(r, Bodies)
        \/ generate_pdf(r)

Spec == Init /\ [][Next]_vars

(***************************************************************************)
(* SpecConc: two workers serve authenticated generate-pdf requests for an  *)
(* existing template concurrently.                                         *)
(***************************************************************************)

ConcBodies ==
    { Body(TRUE, JsonObject(JStr(<< "t" >>), c, o)) :
        c \in { JDict(v) : v \in ContextValues },
        o \in { JStr(<< "a" >>), JStr(<< "a", "/", "b" >>) } }

NextConc ==
    \E r \in Workers :
        \/ Receive(r, { "POST" }, { "/api/generate-pdf" }, { GoodHeader })
        \/ before_request(r)
        \/ generate_pdf_endpoint(r, ConcBodies)
        \/ generate_pdf(r)

SpecConc == Init /\ [][NextConc]_vars

(***************************************************************************)
(* Properties                                                              *)
(***************************************************************************)

Done(r) == pc[r] = "done"

\* TRUE iff step `step` is in the record of worker r's current request.
Ran(r, step) == \E i \in 1..Len(trace[r]) : trace[r][i].step = step

\* The view functions of the application.
Views ==
    { "health_check", "serve_static", "render_template_endpoint", "generate_pdf_endpoint" }

\* The last entry of worker r's record.
LastStep(r) == trace[r][Len(trace[r])]

\* The document a request for template name `t` with context `c` composes.
DocumentOf(t, c) == WritePdf(Render(TemplateFiles[t \o J2Suffix], c).val)

\* TRUE iff worker r's request was handled by generate_pdf_endpoint with a
\* JSON object as body.
GeneratePdfPost(r) ==
    /\ Ran(r, "generate_pdf_endpoint")
    /\ req[r].is_json
    /\ req[r].data.kind = "object"

\* TRUE iff the body names an existing template that renders, with an object
\* (or no) context.
ValidBody(r) ==
    /\ GeneratePdfPost(r)
    /\ req[r].data.template.kind = "str"
    /\ req[r].data.template.val \o J2Suffix \in DOMAIN TemplateFiles
    /\ Render(TemplateFiles[req[r].data.template.val \o J2Suffix], JDict(<< >>)).ok
    /\ req[r].data.context.kind \in { "absent", "dict" }

\* TRUE iff the `output` field is absent or empty.
OutputMissing(r) ==
    req[r].data.output.kind \in { "absent", "null" } \/ req[r].data.output.val = << >>

\* C1: an authenticated generate-pdf POST with an existing template and an
\* object context answers with the PDF as an attachment, and builds no output
\* target, when `output` is absent or empty; the JSON success envelope is
\* returned only when `output` is present and non-empty.
C1_AttachmentWithoutOutput ==
    \A r \in Workers :
        (Done(r) /\ ValidBody(r) /\ loc[r].fault = "none") =>
            /\ OutputMissing(r) =>
                  /\ resp[r].status = 200
                  /\ resp[r].kind = "pdf_attachment"
                  /\ resp[r].data = DocumentOf(req[r].data.template.val,
                                               DictGetDefault(req[r].data, "context", JDict(<< >>)))
                  /\ loc[r].output_path = << >>
            /\ resp[r].kind = "json_success" => ~OutputMissing(r)

\* TRUE iff the header is Basic base64(user:pass) with the two configured
\* secrets.
CredentialsMatch(auth) ==
    /\ auth.present
    /\ StartsWith(Lower(auth.val), BasicPrefix)
    /\ Len(SplitNone1(auth.val)) = 2
    /\ LET raw == B64Decode(SplitNone1(auth.val)[2])
       IN  /\ raw.ok
           /\ Utf8Decode(raw.val).ok
           /\ Utf8Decode(raw.val).val = user \o << 58 >> \o pwd

\* C2: on a non-exempt route, whatever the method, a request without the
\* matching credentials is answered 401 with the challenge header and no view
\* runs; a view runs only for matching credentials.
C2_GateOnEveryMethod ==
    \A r \in Workers :
        (Done(r) /\ req[r].path \notin exempt_paths) =>
            /\ ~CredentialsMatch(req[r].auth) =>
                  /\ resp[r].status = 401
                  /\ resp[r].challenge
                  /\ \A v \in Views : ~Ran(r, v)
            /\ (\E v \in Views : Ran(r, v)) => CredentialsMatch(req[r].auth)

\* C3: the health route is in the exemption set: GET /api/health without an
\* Authorization header is not answered 401 and gets the health response.
C3_HealthExempt ==
    \A r \in Workers :
        (Done(r) /\ req[r].method = "GET" /\ req[r].path = "/api/health"
         /\ ~req[r].auth.present) =>
            /\ resp[r].status # 401
            /\ resp[r] = health_response

\* C4: a template reference with a directory segment fails the pipeline
\* with a client error (4xx), before any existence check, read, conversion or
\* write.
C4_InvalidNameIsClientError ==
    \A r \in Workers :
        (Done(r) /\ Ran(r, "validate")
         /\ PathName(loc[r].template_name) # loc[r].template_name) =>
            /\ resp[r].status >= 400 /\ resp[r].status <= 499
            /\ LastStep(r).step = "validate"
            /\ \A s \in { "exists", "read", "render", "convert", "mkdir", "open", "write" } :
                  ~Ran(r, s)

\* C5: a JSON body with no template, an empty template or a context that is
\* no object is answered 400 whatever its other fields; a non-JSON content
\* type is answered 415.
C5_BadFieldsAre400 ==
    \A r \in Workers :
        (Done(r) /\ Ran(r, "generate_pdf_endpoint")) =>
            /\ ~req[r].is_json => resp[r].status = 415
            /\ (/\ GeneratePdfPost(r)
                /\ \/ ~Truthy(DictGet(req[r].data, "template"))
                   \/ req[r].data.context.kind \notin { "absent", "dict" })
               => resp[r].status = 400

\* C6: a template name without separators that has no file under the
\* templates root is answered 404 with a JSON error, and nothing is converted
\* or written.
C6_MissingTemplateIs404 ==
    \A r \in Workers :
        (/\ Done(r)
         /\ GeneratePdfPost(r)
         /\ req[r].data.template.kind = "str"
         /\ req[r].data.template.val # << >>
         /\ IndexOf(req[r].data.template.val, "/", 1) = 0
         /\ req[r].data.template.val \o J2Suffix \notin DOMAIN TemplateFiles
         /\ req[r].data.context.kind \in { "absent", "dict" }) =>
            /\ resp[r].status = 404
            /\ resp[r].kind = "json_error"
            /\ resp[r].error # << >>
            /\ \A s \in { "convert", "mkdir", "open", "write" } : ~Ran(r, s)

\* C7: every fault of the conversion step or of the output-writing steps is
\* answered 500 with the wrapped underlying message; generate-pdf answers 404
\* only when the template file does not exist.
C7_WriteFaultsAre500 ==
    \A r \in Workers :
        (Done(r) /\ Ran(r, "generate_pdf_endpoint")) =>
            /\ (~LastStep(r).ok /\ LastStep(r).step \in { "convert", "mkdir", "open", "write" })
               => /\ resp[r].status = 500
                  /\ Len(resp[r].error) > 1
                  /\ resp[r].error[1] = "Error al generar PDF: "
            /\ resp[r].status = 404 =>
                  /\ Ran(r, "validate")
                  /\ loc[r].template_name \notin DOMAIN TemplateFiles

\* C8: GET /api/render-template whose config names an existing
\* single-component JSON file with an existing template and an object context
\* answers with the rendered markup and a success status, writing nothing.
C8_RenderTemplateReturnsMarkup ==
    \A r \in Workers :
        (/\ Done(r)
         /\ Ran(r, "render_template_endpoint")
         /\ LET name == IF req[r].config.kind = "absent" THEN DefaultConfig
                        ELSE req[r].config.val
            IN  /\ name # << >>
                /\ PathName(name) = name
                /\ name \in DOMAIN ConfigFiles
                /\ ConfigFiles[name].template.kind = "str"
                /\ ConfigFiles[name].template.val \o J2Suffix \in DOMAIN TemplateFiles
                /\ ConfigFiles[name].context.kind = "dict") =>
            LET data == ConfigFiles[IF req[r].config.kind = "absent" THEN DefaultConfig
                                    ELSE req[r].config.val]
            IN  /\ resp[r].status = 200
                /\ resp[r].kind = "html"
                /\ resp[r].data = Render(TemplateFiles[data.template.val \o J2Suffix],
                                         data.context).val

\* The order of generate_pdf's steps for a request with locals l.
ServiceOrder(l) ==
    << "validate", "exists", "read", "render", "convert" >>
    \o (IF l.output_path # << >> THEN << "mkdir", "open", "write" >> ELSE << >>)
    \o << "respond" >>

\* TRUE iff worker r's request has entered generate_pdf.
InService(r) ==
    /\ Len(trace[r]) >= 2
    /\ trace[r][2].step = "generate_pdf_endpoint"
    /\ trace[r][2].ok

\* The record of the steps of generate_pdf in worker r's current request.
ServiceRecord(r) ==
    IF InService(r) THEN SubSeq(trace[r], 3, Len(trace[r])) ELSE << >>

\* The steps done so far are the first steps of the order, each done once;
\* only the last one may have failed, and then the request is over with an
\* error; otherwise the next step of the order is the one to run.
StepsInOrder(r) ==
    LET st    == ServiceRecord(r)
        order == ServiceOrder(loc[r])
    IN  /\ Len(st) <= Len(order)
        /\ \A i \in 1..Len(st) : st[i].step = order[i]
        /\ \A i \in 1..(Len(st) - 1) : st[i].ok
        /\ (Len(st) > 0 /\ ~st[Len(st)].ok) => (Done(r) /\ resp[r].status >= 400)
        /\ (InService(r) /\ ~Done(r)) => pc[r] = order[Len(st) + 1]

\* A step that changes the directories or the files is a step of a worker
\* whose validation, existence check, read, rendering and conversion have all
\* succeeded.
WritesOnlyAfterConversion ==
    (dirs' # dirs \/ files' # files) =>
        \E r \in Workers :
            /\ pc'[r] # pc[r]
            /\ pc[r] \in { "mkdir", "open", "write" }
            /\ Len(ServiceRecord(r)) >= 5
            /\ \A i \in 1..5 : ServiceRecord(r)[i].ok
            /\ loc[r].pdf_bytes = WritePdf(loc[r].rendered_html)
            /\ loc[r].rendered_html =
                   Render(TemplateFiles[loc[r].template_name], loc[r].context).val

\* C10: generate_pdf runs validate, exists/read, render, convert, then
\* (with an output path) mkdir, open, write, then respond, in this order; the
\* first failing step ends the request with an error, no later step runs and
\* none is retried; no directory is created and no file is written unless
\* validation, rendering and conversion have all succeeded.
C10_StepsInOrder ==
    /\ [](\A r \in Workers : StepsInOrder(r))
    /\ [][WritesOnlyAfterConversion]_vars

\* A request that went through every step and wrote its document.
C10_Witness ==
    \E r \in Workers :
        /\ Done(r)
        /\ resp[r].kind = "json_success"
        /\ Len(ServiceRecord(r)) = 9
        /\ Components(loc[r].output_path) \in DOMAIN files
        /\ files[Components(loc[r].output_path)] = loc[r].pdf_bytes

\* Both workers have answered with success for the same output path and
\* different documents.
BothComposed ==
    /\ \A r \in Workers : Done(r) /\ resp[r].kind = "json_success"
    /\ loc[1].output_path = loc[2].output_path
    /\ loc[1].pdf_bytes # loc[2].pdf_bytes

\* The content of the file both requests target.
SharedFile == files[Components(loc[1].output_path)]

\* C9 as stated: once two concurrent requests for the same output path have
\* completed, the file holds the complete document of exactly one of them,
\* never a mixture.
C9_NeverAMixture ==
    BothComposed => SharedFile \in { loc[1].pdf_bytes, loc[2].pdf_bytes }

\* C9 as amended: the file begins with the complete document of one of the
\* two requests, and what follows it, if anything, is the part of the other
\* request's longer document beyond that length.
C9_LastWriterPrefix ==
    BothComposed =>
        \E w \in Workers : \E o \in Workers \ { w } :
            \/ SharedFile = loc[w].pdf_bytes
            \/ SharedFile = loc[w].pdf_bytes
                              \o SubSeq(loc[o].pdf_bytes, Len(loc[w].pdf_bytes) + 1,
                                        Len(loc[o].pdf_bytes))

\* Both requests completed and the file is neither request's document.
C9_Witness ==
    /\ BothComposed
    /\ SharedFile \notin { loc[1].pdf_bytes, loc[2].pdf_bytes }

====
